---- MODULE Spec2Model ----
(***************************************************************************)
(* A model of src/experiments_manager.py: the Experiment class, the        *)
(* filesystem tree it writes below <root>/<group>, and the outcomes of the *)
(* git subprocesses of its auto-commit.                                    *)
(*                                                                         *)
(* Strings are sequences of tokens, a path is a sequence of names (each a  *)
(* string), a file's content is the string of everything written to it.    *)
(***************************************************************************)
EXTENDS Integers, Sequences, FiniteSets, TLC

\* ---------------------------------------------------------------- bounds
MaxInits == 2      \* initialize_experiment calls of a run with one manager
MaxSeqInits == 3   \* initialize_experiment calls of a run with several managers
MaxRecords == 2    \* record_info calls of a run that write
MaxForeign == 3    \* entries the group directory may hold before the run

Managers == {"m1", "m2"}
Times == {<<"T1">>, <<"T2">>}              \* values of now.strftime(...), one per second
Texts == {<<"x">>, <<"y">>}                \* single-line arguments of record_info
ForeignName == <<"f1", "f2", "f3", "f4", "f5">>
CustomIds == {<<"run">>, <<"f1">>}         \* what a custom id generator may return
OutputNames == {<<"checkpoints">>, <<"logs">>}
RawHeads == {<<"h1", "\n">>, <<" ", "h2", "\n", "\n">>}   \* stdout of git rev-parse HEAD
Whitespace == {" ", "\n", "\t"}

\* ---------------------------------------------------------------- names
LOGS_NAME == <<"logs">>
INFO_NAME == <<"info.txt">>
Root == <<"root">>
Group == <<"grp">>
None == <<>>
Digit == <<"0", "1", "2", "3", "4", "5", "6", "7", "8", "9">>

VARIABLES dirs, files, mgr, pc, last, calls, recorded, issued, nrec

vars == <<dirs, files, mgr, pc, last, calls, recorded, issued, nrec>>

\* ---------------------------------------------------------------- strings
RECURSIVE ToStr(_)
ToStr(n) == IF n < 10 THEN <<Digit[n + 1]>>
            ELSE ToStr(n \div 10) \o <<Digit[(n % 10) + 1]>>

RECURSIVE LStrip(_)
LStrip(s) == IF s # <<>> /\ Head(s) \in Whitespace THEN LStrip(Tail(s)) ELSE s

RECURSIVE RStrip(_)
RStrip(s) == IF s # <<>> /\ s[Len(s)] \in Whitespace
             THEN RStrip(SubSeq(s, 1, Len(s) - 1)) ELSE s

NoStrip(s) == s

Strip(s) == RStrip(LStrip(s))

IsPrefix(s, t) == Len(s) <= Len(t) /\ SubSeq(t, 1, Len(s)) = s

\* the lines of a text file: the pieces that end in a newline
RECURSIVE SplitLines(_, _)
SplitLines(s, cur) ==
    IF s = <<>> THEN (IF cur = <<>> THEN <<>> ELSE <<cur>>)
    ELSE IF Head(s) = "\n" THEN <<cur>> \o SplitLines(Tail(s), <<>>)
    ELSE SplitLines(Tail(s), Append(cur, Head(s)))

Lines(s) == SplitLines(s, <<>>)

\* ---------------------------------------------------------------- filesystem
Join(p, name) == Append(p, name)

Parent(p) == SubSeq(p, 1, Len(p) - 1)

FilePaths(fl) == {f.path : f \in fl}

ContentOf(fl, p) == (CHOOSE f \in fl : f.path = p).content

Kind(d, fl, p) == IF p = <<>> \/ p \in d THEN "dir"
                  ELSE IF p \in FilePaths(fl) THEN "file"
                  ELSE "none"

Entries(d, fl, g) == {p \in d \cup FilePaths(fl) : Len(p) = Len(g) + 1 /\ Parent(p) = g}

OsMkdir(d, fl, p) ==
    IF Kind(d, fl, p) # "none" THEN "FileExistsError"
    ELSE IF Kind(d, fl, Parent(p)) = "none" THEN "FileNotFoundError"
    ELSE IF Kind(d, fl, Parent(p)) = "file" THEN "NotADirectoryError"
    ELSE "none"

RECURSIVE Mkdir(_, _, _, _, _)
Mkdir(d, fl, p, parents, exist_ok) ==
    LET e == OsMkdir(d, fl, p) IN
    IF e = "none" THEN [dirs |-> d \cup {p}, exc |-> "none"]
    ELSE IF e = "FileNotFoundError"
    THEN IF ~parents \/ Len(p) <= 1 THEN [dirs |-> d, exc |-> e]
         ELSE LET r == Mkdir(d, fl, Parent(p), TRUE, TRUE) IN
              IF r.exc # "none" THEN r ELSE Mkdir(r.dirs, fl, p, FALSE, exist_ok)
    ELSE IF ~exist_ok \/ p \notin d THEN [dirs |-> d, exc |-> e]
    ELSE [dirs |-> d, exc |-> "none"]

\* ---------------------------------------------------------------- the object
NoObject == [alive |-> FALSE]

HasAttr(o, a) == a \in DOMAIN o

SetAttr(o, a, v) == [x \in DOMAIN o \cup {a} |-> IF x = a THEN v ELSE o[x]]

\* the call that returned (or raised) last: who made it, what it was, how it ended
Result(who, op, exc, ret, log, git, out) ==
    [who |-> who, op |-> op, exc |-> exc, ret |-> ret, log |-> log, git |-> git,
     out |-> out]

NoCall == Result("nobody", "none", "none", None, <<>>, <<>>, <<>>)

InitCount == LET RECURSIVE Sum(_)
                 Sum(S) == IF S = {} THEN 0
                           ELSE LET x == CHOOSE y \in S : TRUE IN calls[x] + Sum(S \ {x})
             IN Sum(Managers)

\* ---------------------------------------------------------------- Experiment
\* logging.FileHandler() is called without the filename it requires
DefaultLoggerExc == "TypeError"

NewExperiment(auto, outname, logger, custom) ==
    [alive |-> TRUE,
     _experiments_root_dir |-> <<Root>>,
     _outputs_name |-> outname,
     _group_dir |-> Join(<<Root>>, Group),
     _output_dir |-> None,
     _id_generator |-> IF custom THEN "custom" ELSE "default",
     _auto_commit_git |-> auto,
     _log |-> "Logger"]

Construct(m, auto, outname, logger, custom) ==
    /\ ~mgr[m].alive
    /\ IF logger = "default"
       THEN /\ last' = Result(m, "__init__", DefaultLoggerExc, None, <<>>, <<>>, <<>>)
            /\ mgr' = mgr
       ELSE /\ mgr' = [mgr EXCEPT ![m] = NewExperiment(auto, outname, logger, custom)]
            /\ last' = Result(m, "__init__", "none", None, <<>>, <<>>, <<>>)
    /\ UNCHANGED <<dirs, files, pc, calls, recorded, issued, nrec>>

\* the two read-only properties: what reading them gives, or raises
outputs_path(o) == [exc |-> "none", ret |-> o._output_dir]

logs_path(o) == IF HasAttr(o, "_logs_dir")
                THEN [exc |-> "none", ret |-> o._logs_dir]
                ELSE [exc |-> "AttributeError", ret |-> None]

ExperimentIndexDirsOnly(d, fl, o) ==
    IF Kind(d, fl, o._group_dir) # "none"
    THEN Cardinality(Entries(d, fl, o._group_dir) \cap d)
    ELSE 0

ExperimentIndexFilesOnly(d, fl, o) ==
    IF Kind(d, fl, o._group_dir) # "none"
    THEN Cardinality(Entries(d, fl, o._group_dir) \cap FilePaths(fl))
    ELSE 0

_get_experiment_index(d, fl, o) ==
    IF Kind(d, fl, o._group_dir) # "none"
    THEN Cardinality(Entries(d, fl, o._group_dir))
    ELSE 0

_default_id_generator(d, fl, o, now) ==
    ToStr(_get_experiment_index(d, fl, o)) \o <<"_">> \o now

GenerateIdOnce(d, fl, o, now, customId) ==
    IF HasAttr(o, "_experiment_directory") THEN o._experiment_directory[Len(o._experiment_directory)]
    ELSE IF o._id_generator = "custom" THEN customId
    ELSE _default_id_generator(d, fl, o, now)

GenerateId(d, fl, o, now, customId) ==
    IF o._id_generator = "custom" THEN customId
    ELSE _default_id_generator(d, fl, o, now)

\* open(path, mode) followed by f.write(text + '\n')
OpenModeTruncate == "w"

OpenMode == "a"

OpenExc(d, fl, p) ==
    IF Kind(d, fl, Parent(p)) = "none" THEN "FileNotFoundError"
    ELSE IF Kind(d, fl, Parent(p)) = "file" THEN "NotADirectoryError"
    ELSE IF Kind(d, fl, p) = "dir" THEN "IsADirectoryError"
    ELSE "none"

WriteFile(fl, p, mode, text) ==
    LET old == IF p \in FilePaths(fl) /\ mode = "a" THEN ContentOf(fl, p) ELSE <<>>
    IN {f \in fl : f.path # p} \cup {[path |-> p, content |-> old \o text]}

record_info(d, fl, o, info) ==
    IF ~HasAttr(o, "_experiment_directory")
    THEN [files |-> fl, exc |-> "AttributeError"]
    ELSE LET p == Join(o._experiment_directory, INFO_NAME) IN
         IF OpenExc(d, fl, p) # "none"
         THEN [files |-> fl, exc |-> OpenExc(d, fl, p)]
         ELSE [files |-> WriteFile(fl, p, OpenMode, info \o <<"\n">>), exc |-> "none"]

RecordInfo(m, t) ==
    /\ mgr[m].alive /\ pc[m] = "idle"
    /\ LET r == record_info(dirs, files, mgr[m], t) IN
       /\ files' = r.files
       /\ last' = Result(m, "record_info", r.exc, None, <<>>, <<>>, <<>>)
       /\ recorded' = [recorded EXCEPT ![m] = IF r.exc = "none" THEN Append(@, t) ELSE @]
       /\ nrec' = IF r.exc = "none" THEN nrec + 1 ELSE nrec
    /\ UNCHANGED <<dirs, mgr, pc, calls, issued>>

\* self._experiment_directory / self._outputs_name
OutputDirInGroup(o) == Join(o._group_dir, o._outputs_name)

OutputDir(o) == Join(o._experiment_directory, o._outputs_name)

\* ---- initialize_experiment, in the three steps other processes can interleave with
ExistOkOff == FALSE

ExistOk == TRUE

InitializeBegin(m) ==
    /\ mgr[m].alive /\ pc[m] = "idle"
    /\ \E now \in IF mgr[m]._id_generator = "default" THEN Times ELSE {<<>>},
          customId \in IF mgr[m]._id_generator = "custom" THEN CustomIds ELSE {<<>>} :
         LET id == GenerateId(dirs, files, mgr[m], now, customId)
             expdir == Join(mgr[m]._group_dir, id)
         IN /\ mgr' = [mgr EXCEPT ![m] =
                         SetAttr(SetAttr(@, "_experiment_directory", expdir),
                                 "_logs_dir", Join(expdir, LOGS_NAME))]
            /\ issued' = IF mgr[m]._id_generator = "default"
                         THEN Append(issued, id) ELSE issued
    /\ calls' = [calls EXCEPT ![m] = @ + 1]
    /\ recorded' = [recorded EXCEPT ![m] = <<>>]
    /\ pc' = [pc EXCEPT ![m] = "mkdir"]
    /\ UNCHANGED <<dirs, files, last, nrec>>

InitializeMkdir(m) ==
    /\ pc[m] = "mkdir"
    /\ LET r == Mkdir(dirs, files, mgr[m]._logs_dir, TRUE, ExistOk) IN
       IF r.exc # "none"
       THEN /\ dirs' = r.dirs
            /\ mgr' = mgr
            /\ last' = Result(m, "initialize_experiment", r.exc, None,
                              <<"INFO">>, <<>>, <<>>)
            /\ pc' = [pc EXCEPT ![m] = "idle"]
       ELSE /\ dirs' = r.dirs
            /\ mgr' = [mgr EXCEPT ![m] =
                         SetAttr(@, "_output_dir", OutputDir(@))]
            /\ IF mgr[m]._auto_commit_git
               THEN /\ last' = last
                    /\ pc' = [pc EXCEPT ![m] = "commit"]
               ELSE /\ last' = Result(m, "initialize_experiment", "none", None,
                                      <<"INFO">>, <<>>, <<>>)
                    /\ pc' = [pc EXCEPT ![m] = "idle"]
    /\ UNCHANGED <<files, calls, recorded, issued, nrec>>

\* ---- _do_auto_commit: git add, git diff --staged --quiet, git commit, git rev-parse
GitCheck == <<TRUE, FALSE, TRUE, TRUE>>

\* what subprocess.run raises for an exit status ("0", "1") or a failed launch
RunExc(rc, check) == IF rc = "oserr" THEN "FileNotFoundError"
                     ELSE IF check /\ rc # "0" THEN "CalledProcessError"
                     ELSE "none"

\* the steps that run: up to and including the first that raises
Executed(env) ==
    LET bad == {i \in 1..Len(env) : RunExc(env[i], GitCheck[i]) # "none"} IN
    IF bad = {} THEN env
    ELSE SubSeq(env, 1, CHOOSE i \in bad : \A j \in bad : i <= j)

\* what the four processes can do, as far as the sequence gets to see it
GitRuns == {Executed(env) : env \in [1..4 -> {"0", "1", "oserr"}]}

GitExc(run) == RunExc(run[Len(run)], GitCheck[Len(run)])

CaughtNothing(exc) == FALSE

Caught(exc) == exc = "CalledProcessError"

_record_commit_hash(d, fl, o, commit_hash) ==
    record_info(d, fl, o, <<"commit_hash: ">> \o commit_hash)

_do_auto_commit(d, fl, o, env, stdout) ==
    LET run == Executed(env)
        e == GitExc(run)
        w == _record_commit_hash(d, fl, o, Strip(stdout))
        raised == IF e # "none" THEN e ELSE w.exc
    IN [files |-> IF e = "none" THEN w.files ELSE fl,
        git |-> run,
        out |-> IF Len(run) = 4 /\ e = "none" THEN stdout ELSE <<>>,
        log |-> IF raised # "none" /\ Caught(raised) THEN <<"ERROR">> ELSE <<>>,
        exc |-> IF Caught(raised) THEN "none" ELSE raised]

DoAutoCommit(m) ==
    /\ pc[m] = "commit"
    /\ \E env \in GitRuns :
         \E stdout \in IF GitExc(env) = "none" THEN RawHeads ELSE {<<>>} :
           LET r == _do_auto_commit(dirs, files, mgr[m], env, stdout) IN
           /\ files' = r.files
           /\ last' = Result(m, "initialize_experiment", r.exc, None,
                             <<"INFO", "INFO">> \o r.log, r.git, r.out)
    /\ pc' = [pc EXCEPT ![m] = "idle"]
    /\ UNCHANGED <<dirs, mgr, calls, recorded, issued, nrec>>

\* ---------------------------------------------------------------- specification
\* the tree before the run: nothing, the root, or the group with k entries
\* (the odd ones files, the even ones directories)
GroupDir == Join(<<Root>>, Group)

ForeignPath(i) == Join(GroupDir, <<ForeignName[i]>>)

InitialTrees ==
    {[dirs |-> {}, files |-> {}], [dirs |-> {<<Root>>}, files |-> {}]}
    \cup {[dirs |-> {<<Root>>, GroupDir} \cup {ForeignPath(i) : i \in {j \in 1..k : j % 2 = 0}},
           files |-> {[path |-> ForeignPath(i), content |-> <<>>] : i \in {j \in 1..k : j % 2 = 1}}]
          : k \in 0..MaxForeign}

Init ==
    /\ \E t \in InitialTrees : dirs = t.dirs /\ files = t.files
    /\ mgr = [m \in Managers |-> NoObject]
    /\ pc = [m \in Managers |-> "idle"]
    /\ last = NoCall
    /\ calls = [m \in Managers |-> 0]
    /\ recorded = [m \in Managers |-> <<>>]
    /\ issued = <<>>
    /\ nrec = 0

\* a step of a call of manager m: a call begins, or initialize_experiment goes on
\* to create its directory.  The constructor's arguments are drawn from the
\* given sets.
Calls(m, Autos, Names, Customs, maxInits) ==
    \/ \E auto \in Autos, outname \in Names,
          logger \in {"default", "none", "supplied"}, custom \in Customs :
         Construct(m, auto, outname, logger, custom)
    \/ InitCount < maxInits /\ InitializeBegin(m)
    \/ InitializeMkdir(m)
    \/ nrec < MaxRecords /\ \E t \in Texts : RecordInfo(m, t)

\* a program with one manager, configured in any way
Next ==
    \/ Calls("m1", BOOLEAN, OutputNames, BOOLEAN, MaxInits)
    \/ DoAutoCommit("m1")

Spec == Init /\ [][Next]_vars

\* several managers with the default generator and no auto-commit, against a
\* group directory that starts without entries
DefaultOnly == {FALSE}

InitEmpty == Init /\ Entries(dirs, files, GroupDir) = {}

\* one single-threaded program holding the managers: a call runs to its end
\* before the next one begins
Running == {m \in Managers : pc[m] # "idle"}

NextSeq == \E m \in Managers :
              /\ Running \subseteq {m}
              /\ Calls(m, {FALSE}, {<<"checkpoints">>}, DefaultOnly, MaxSeqInits)

SpecSeq == InitEmpty /\ [][NextSeq]_vars

\* one process per manager, against the same tree: the steps interleave
NextRace == \E m \in Managers :
              Calls(m, {FALSE}, {<<"checkpoints">>}, DefaultOnly, MaxSeqInits)

SpecRace == Init /\ [][NextRace]_vars

\* ================================================================ properties
Initialized(m) == mgr[m].alive /\ HasAttr(mgr[m], "_experiment_directory")

\* initialize_experiment of m is the call that ended last
JustInitialized(m) ==
    /\ last.who = m /\ last.op = "initialize_experiment"
    /\ pc[m] = "idle"

\* the exit statuses git add, git commit and git rev-parse ended with, as far as
\* the sequence got
AllThreeSucceeded(run) == Len(run) = 4 /\ run[1] = "0" /\ run[3] = "0" /\ run[4] = "0"

FailedByExit(run) == run # <<>> /\ Len(run) # 2 /\ run[Len(run)] = "1"

FailedToLaunch(run) == run # <<>> /\ run[Len(run)] = "oserr"

DirectoriesAndPathsInPlace(m) ==
    /\ mgr[m]._experiment_directory \in dirs
    /\ Join(mgr[m]._experiment_directory, LOGS_NAME) \in dirs
    /\ logs_path(mgr[m]) = [exc |-> "none", ret |-> Join(mgr[m]._experiment_directory, LOGS_NAME)]
    /\ outputs_path(mgr[m]).ret =
         Join(mgr[m]._experiment_directory, mgr[m]._outputs_name)

\* C1, as stated: with auto-commit enabled, when git add, git commit or git
\* rev-parse fails, whatever the cause, initialize_experiment returns normally,
\* the failure is logged as an error, and the directories and the derived paths
\* stay in place.
C1_AnyFailureSuppressed ==
    \A m \in Managers :
        (JustInitialized(m) /\ (FailedByExit(last.git) \/ FailedToLaunch(last.git)))
        => /\ last.exc = "none"
           /\ last.log = <<"INFO", "INFO", "ERROR">>
           /\ DirectoriesAndPathsInPlace(m)

\* C1, amended: a step that fails by exiting with a non-zero status is caught and
\* logged as an error, and initialize_experiment returns normally; a git process
\* that cannot be launched raises out of initialize_experiment, unlogged.  In
\* both cases the directories and the derived paths stay in place.
C1_ExitFailureSuppressed ==
    \A m \in Managers :
        /\ (JustInitialized(m) /\ FailedByExit(last.git))
           => /\ last.exc = "none"
              /\ last.log = <<"INFO", "INFO", "ERROR">>
              /\ DirectoriesAndPathsInPlace(m)
        /\ (JustInitialized(m) /\ FailedToLaunch(last.git))
           => /\ last.exc = "FileNotFoundError"
              /\ last.log = <<"INFO", "INFO">>
              /\ DirectoriesAndPathsInPlace(m)

C1_Witness ==
    \E m \in Managers :
        /\ JustInitialized(m) /\ mgr[m]._auto_commit_git
        /\ last.git = <<"0", "0", "1">>
        /\ last.exc = "none"
        /\ Join(mgr[m]._experiment_directory, LOGS_NAME) \in dirs

\* ---------------------------------------------------------------- C2
InfoPath(m) == Join(mgr[m]._experiment_directory, INFO_NAME)

ContentOrEmpty(fl, p) == IF p \in FilePaths(fl) THEN ContentOf(fl, p) ELSE <<>>

\* v is s without the whitespace around it
IsTrimOf(v, s) ==
    /\ v = <<>> \/ (v[1] \notin Whitespace /\ v[Len(v)] \notin Whitespace)
    /\ \E i \in 0..Len(s) :
         /\ i + Len(v) <= Len(s)
         /\ SubSeq(s, i + 1, i + Len(v)) = v
         /\ \A j \in (1..i) \cup ((i + Len(v) + 1)..Len(s)) : s[j] \in Whitespace

IsCommitHashLine(line) == line # <<>> /\ line[1] = "commit_hash: "

AutoCommitEnds(m) == pc[m] = "commit" /\ pc'[m] = "idle"

\* C2: in an initialize_experiment with auto-commit, a line "commit_hash: <v>" is
\* appended to the experiment's info.txt if and only if git add, git commit and
\* git rev-parse all succeeded, whatever git diff --staged --quiet said; <v> is
\* the output of git rev-parse without the whitespace around it; no other step
\* of the call writes a file, so at most one such line is written per call.
C2_CommitHashLine ==
    [][\A m \in Managers :
         /\ AutoCommitEnds(m) =>
              LET before == ContentOrEmpty(files, InfoPath(m))
                  after == ContentOrEmpty(files', InfoPath(m))
                  added == SubSeq(after, Len(before) + 1, Len(after))
              IN /\ IsPrefix(before, after)
                 /\ \A f \in files : f.path # InfoPath(m) => f \in files'
                 /\ FilePaths(files') \subseteq FilePaths(files) \cup {InfoPath(m)}
                 /\ IF AllThreeSucceeded(last'.git)
                    THEN /\ Len(Lines(added)) = 1
                         /\ added[Len(added)] = "\n"
                         /\ IsCommitHashLine(Lines(added)[1])
                         /\ IsTrimOf(Tail(Lines(added)[1]), last'.out)
                    ELSE added = <<>> /\ files' = files
         /\ (pc[m] # "commit" /\ pc'[m] # pc[m]) => files' = files
      ]_vars

C2_Witness ==
    \E m \in Managers :
        /\ JustInitialized(m)
        /\ last.git = <<"0", "1", "0", "0">>
        /\ last.out = <<" ", "h2", "\n", "\n">>
        /\ Lines(ContentOrEmpty(files, InfoPath(m))) = << <<"commit_hash: ", "h2">> >>

\* ---------------------------------------------------------------- C3
MkdirReturns(m) == pc[m] = "mkdir" /\ pc'[m] = "idle" /\ last'.exc = "none"

Ancestors(p) == {SubSeq(p, 1, n) : n \in 1..Len(p)}

InitializeLeaves(m, outputsMayBeLogs) ==
    LET exp == mgr[m]._experiment_directory
        id == exp[Len(exp)]
        logsDir == << Root, Group, id, LOGS_NAME >>
        outDir == << Root, Group, id, mgr[m]._outputs_name >>
    IN /\ logsDir \in dirs'
       /\ logs_path(mgr'[m]) = [exc |-> "none", ret |-> logsDir]
       /\ outputs_path(mgr'[m]) = [exc |-> "none", ret |-> outDir]
       /\ IF outputsMayBeLogs /\ mgr[m]._outputs_name = LOGS_NAME
          THEN outDir = logsDir
          ELSE outDir \notin dirs' \ dirs
       /\ files' = files
       /\ dirs' \ dirs \subseteq Ancestors(logsDir)

IsSuffix(s, t) == Len(s) <= Len(t) /\ SubSeq(t, Len(t) - Len(s) + 1, Len(t)) = s

RecordInfoWrites(m) == nrec' = nrec + 1 /\ last'.who = m

\* C4: a record_info(t) that returns appends exactly the line t to the info.txt
\* of the caller's experiment directory, creating the file if it is absent, and
\* changes nothing else; so after an initialize_experiment the file is what it
\* was followed by the lines recorded since, in call order.
C4_AppendOnly ==
    /\ [][\A m \in Managers :
            RecordInfoWrites(m) =>
              /\ last'.op = "record_info" /\ last'.exc = "none"
              /\ ContentOrEmpty(files', InfoPath(m)) =
                   ContentOrEmpty(files, InfoPath(m))
                     \o recorded'[m][Len(recorded'[m])] \o <<"\n">>
              /\ \A f \in files : f.path # InfoPath(m) => f \in files'
              /\ FilePaths(files') = FilePaths(files) \cup {InfoPath(m)}
              /\ dirs' = dirs
         ]_vars
    /\ [](\A m \in Managers :
            (Initialized(m) /\ recorded[m] # <<>>)
            => IsSuffix(recorded[m], Lines(ContentOrEmpty(files, InfoPath(m)))))

C4_Witness ==
    \E m \in Managers :
        /\ Initialized(m) /\ ~mgr[m]._auto_commit_git
        /\ recorded[m] = << <<"x">>, <<"y">> >>
        /\ ContentOf(files, InfoPath(m)) = <<"x", "\n", "y", "\n">>
        /\ Lines(ContentOf(files, InfoPath(m))) = << <<"x">>, <<"y">> >>

\* ---------------------------------------------------------------- C5
\* C5: constructing an Experiment never raises, also with the logger argument
\* left at its default, touches no file or directory, and leaves a manager on
\* which initialize_experiment has not run.
C5_ConstructorNeverRaises ==
    \A m \in Managers :
        (last.who = m /\ last.op = "__init__")
        => /\ last.exc = "none"
           /\ mgr[m].alive /\ ~Initialized(m)
           /\ \E t \in InitialTrees : dirs = t.dirs /\ files = t.files

\* ---------------------------------------------------------------- C6
\* C6: before initialize_experiment has been called, outputs_path and logs_path
\* both give an uninitialized value instead of raising, and record_info raises
\* without creating or changing an info.txt.
C6_UninitializedPathsAreNone ==
    \A m \in Managers :
        (mgr[m].alive /\ calls[m] = 0)
        => /\ outputs_path(mgr[m]) = [exc |-> "none", ret |-> None]
           /\ logs_path(mgr[m]) = [exc |-> "none", ret |-> None]
           /\ (last.who = m /\ last.op = "record_info") => last.exc # "none"
           /\ \A f \in files : f.path[Len(f.path)] # INFO_NAME

\* ---------------------------------------------------------------- C7
NothingRemoved ==
    /\ dirs \subseteq dirs'
    /\ \A f \in files : \E g \in files' : g.path = f.path /\ IsPrefix(f.content, g.content)

RepeatBegins(m) == pc[m] = "idle" /\ pc'[m] = "mkdir" /\ calls[m] >= 1

RepeatStep(m) == calls[m] >= 2 /\ pc[m] # "idle" /\ pc'[m] # pc[m]

RepeatEnds(m) == calls[m] >= 2 /\ pc[m] # "idle" /\ pc'[m] = "idle"

\* what can make any initialize_experiment raise: an identifier that names a file,
\* or a git process that cannot be launched
BlockedByFile(m) == Kind(dirs, files, mgr[m]._experiment_directory) = "file"

DigitValue(c) == CHOOSE v \in 0..9 : Digit[v + 1] = c

RECURSIVE ParseInt(_)
ParseInt(s) == IF s = <<>> THEN 0
               ELSE 10 * ParseInt(SubSeq(s, 1, Len(s) - 1)) + DigitValue(s[Len(s)])

GroupEntryCount ==
    Cardinality({p \in dirs \cup FilePaths(files) :
                   Len(p) = 3 /\ p[1] = Root /\ p[2] = Group})

GeneratesId(m) == pc[m] = "idle" /\ pc'[m] = "mkdir"

\* C8: the default generator returns "<count>_<timestamp>", <count> being the
\* number of immediate entries of the group directory, files and directories
\* alike, when the identifier is generated, and 0 when the group directory does
\* not exist ("0_..." for none, "3_..." for three); generating creates nothing;
\* a custom generator's value is used as it is.
C8_DefaultIdentifier ==
    [][\A m \in Managers :
         GeneratesId(m) =>
           LET exp == mgr'[m]._experiment_directory
               id == exp[Len(exp)]
               index == SubSeq(id, 1, Len(id) - 2)
           IN /\ Parent(exp) = <<Root, Group>>
              /\ dirs' = dirs /\ files' = files
              /\ IF mgr[m]._id_generator = "default"
                 THEN /\ Len(id) >= 3
                      /\ index[1] # "0" \/ Len(index) = 1
                      /\ \A i \in 1..Len(index) : \E v \in 0..9 : Digit[v + 1] = index[i]
                      /\ ParseInt(index) = GroupEntryCount
                      /\ id[Len(id) - 1] = "_"
                      /\ <<id[Len(id)]>> \in Times
                      /\ GroupEntryCount = 0 => SubSeq(id, 1, 2) = <<"0", "_">>
                      /\ GroupEntryCount = 3 => SubSeq(id, 1, 2) = <<"3", "_">>
                 ELSE id \in CustomIds
      ]_vars

C8_Witness ==
    \E m \in Managers :
        /\ pc[m] = "mkdir" /\ mgr[m]._id_generator = "default"
        /\ GroupEntryCount = 3
        /\ \E f \in files : Parent(f.path) = <<Root, Group>>
        /\ mgr[m]._experiment_directory = <<Root, Group, <<"3", "_", "T2">> >>

\* ---------------------------------------------------------------- C9
IndexOf(id) == ParseInt(SubSeq(id, 1, Len(id) - 2))

SameDirectory(m, k) ==
    /\ m # k /\ Initialized(m) /\ Initialized(k)
    /\ mgr[m]._experiment_directory = mgr[k]._experiment_directory

\* C9: two managers with the default generator, each in its own process, can get
\* the same identifier: when one counts the entries while the other has counted
\* them and not yet created its directory, in the same second, the identifiers
\* are equal; the later
\* directory creation finds the leaf and raises nothing, both managers then
\* refer to one experiment directory, and a record_info of either appends to
\* the one info.txt there.
C9_SharedDirectory ==
    [][\A m, k \in Managers :
            /\ (m # k /\ GeneratesId(m) /\ pc[k] = "mkdir"
                  /\ IndexOf(mgr[k]._experiment_directory[3]) = GroupEntryCount
                  /\ mgr'[m]._experiment_directory[3][Len(mgr'[m]._experiment_directory[3])]
                       = mgr[k]._experiment_directory[3][Len(mgr[k]._experiment_directory[3])])
               => SameDirectory(m, k)'
            /\ (SameDirectory(m, k) /\ pc[k] = "idle"
                  /\ pc[m] = "mkdir" /\ pc'[m] = "idle" /\ mgr[m]._logs_dir \in dirs)
               => /\ last' = Result(m, "initialize_experiment", "none", None,
                                    <<"INFO">>, <<>>, <<>>)
                  /\ dirs' = dirs
                  /\ outputs_path(mgr'[m]).ret = outputs_path(mgr'[k]).ret
                  /\ logs_path(mgr'[m]) = logs_path(mgr'[k])
            /\ (SameDirectory(m, k) /\ RecordInfoWrites(m))
               => ContentOrEmpty(files', InfoPath(k)) =
                    ContentOrEmpty(files, InfoPath(k))
                      \o recorded'[m][Len(recorded'[m])] \o <<"\n">>
         ]_vars

C9_Witness ==
    \E m, k \in Managers :
        /\ SameDirectory(m, k)
        /\ pc[m] = "idle" /\ pc[k] = "idle"
        /\ mgr[m]._logs_dir \in dirs
        /\ mgr[m]._output_dir # None /\ mgr[m]._output_dir = mgr[k]._output_dir
        /\ calls[m] = 1 /\ calls[k] = 1
        /\ issued = << <<"0", "_", "T1">>, <<"0", "_", "T1">> >>
        /\ recorded[m] = << <<"x">> >> /\ recorded[k] = << <<"y">> >>
        /\ Lines(ContentOf(files, InfoPath(m))) = << <<"x">>, <<"y">> >>

\* ---------------------------------------------------------------- C10
\* C10: with the default generator, a group directory that starts without
\* entries and calls that run one after another, on one manager or on several,
\* with record_info calls in between, the identifiers are pairwise distinct
\* whatever the timestamps: the k-th carries the index k-1, and between calls
\* the group directory holds one entry per call made.
C10_SequentialIdsDistinct ==
    /\ \A i, j \in 1..Len(issued) : i # j => issued[i] # issued[j]
    /\ \A k \in 1..Len(issued) : IndexOf(issued[k]) = k - 1
    /\ Running = {} => GroupEntryCount = Len(issued)
    /\ Len(issued) = InitCount

C10_Witness ==
    /\ Running = {}
    /\ issued = << <<"0", "_", "T1">>, <<"1", "_", "T1">>, <<"2", "_", "T1">> >>
    /\ calls = [m \in Managers |-> IF m = "m1" THEN 2 ELSE 1]
    /\ nrec = MaxRecords
    /\ GroupEntryCount = 3

====
